---------------------------- MODULE Spec2Model ----------------------------
(***************************************************************************)
(* A model of the numerical routines of the ntuphys_nb notebooks:          *)
(*   - fborn1, the Monte Carlo estimator of the first Born amplitude,      *)
(*     the potential V1 and the stub fborn2 (scattering notebook),         *)
(*   - reduced_density_matrix_A and the entropy check cell                 *)
(*     (entanglement notebook),                                            *)
(*   - np.kron on 1D arrays as the notebook uses it,                       *)
(*   - the tensor product and partial projection cells                     *)
(*     (entanglement notebook),                                            *)
(*   - plot_sine_series under its IntSlider (calculus notebook),           *)
(*   - the execution of code cells in a Jupyter kernel namespace.          *)
(*                                                                         *)
(* Arithmetic is exact.  Real numbers are fixed point integers and         *)
(* complex numbers are records [re, im] of integers:                       *)
(*   - wavevector components count units of 1e-3, so that k.k counts units *)
(*     of 1e-6 and the tolerance 1e-5 of fborn1's assertion is 10 units;   *)
(*   - np.random.random() returns u/RandDen for u in 0..RandDen-1, a grid  *)
(*     of [0, 1); positions are kept multiplied by RandDen;                *)
(*   - the phase dkr counts quarter turns, so exp(1j*dkr) is a power of i  *)
(*     (the assertion reads only k.k and the integrand only (ki-kf).r1,    *)
(*     so each of the two scales is chosen to make its own step exact);    *)
(*   - amplitudes count units of 0.1/(2*pi) (V1 returns 0.1, i.e. 1 unit); *)
(*   - a quotient x/N is kept as the pair [num |-> x, den |-> N].          *)
(***************************************************************************)
EXTENDS Integers, Sequences, FiniteSets, Bags, TLC

VARIABLES
    \* ---- fborn1 (scattering notebook) ----
    bpc,      \* where the call is: idle, assert, loop, done, AssertionError, ZeroDivisionError
    args,     \* the arguments of the call: [Vfun, ki, kf, L, N]
    n,        \* iterations of the sampling loop completed
    r1,       \* the last point sampled (times RandDen)
    f1,       \* the accumulator
    volume,   \* (2*L)**3
    ret,      \* the returned value, [num, den]
    drawn,    \* ghost: the bag of points drawn by this call
    vcalls,   \* ghost: the bag of points Vfun was called with by this call
    rngpos,   \* values consumed so far from NumPy's global generator
    entrypos, \* ghost: rngpos when the call was entered
    ncalls,   \* calls entered so far
    log,      \* ghost: the record of the previous completed call, <<>> if none
    \* ---- np.kron on 1D arrays (entanglement notebook) ----
    kpc,      \* start, psi (kron(a, b) computed), foo (kron(b, a) computed too)
    ka,       \* the array a
    kb,       \* the array b
    kpsi,     \* psi = np.kron(a, b)
    kfoo,     \* foo = np.kron(b, a)
    \* ---- reduced_density_matrix_A (entanglement notebook) ----
    rpc,      \* start, reduced (the function returned), checked (the check cell ran)
    psi,      \* the state vector, not normalised
    dimA,     \* the argument dimA
    rho,      \* the density matrix passed, [num, den]
    rhoA,     \* the matrix returned, [num, den]
    entropy,  \* S of the check cell, as the bag of the p in  - sum p log p
    \* ---- the Jupyter kernel running a notebook's code cells ----
    nbk,      \* the notebook the kernel belongs to
    ns,       \* the kernel's namespace: each bound name -> the cell that bound it last
    lastrun,  \* the last cell run: [cell, status, before, inputs]
    \* ---- tensor products and partial projections (entanglement notebook) ----
    tpc,      \* start, mixed, left, right: the last of the three example cells run
    ta,       \* the array a
    tb,       \* the array b
    tOA,      \* the 2D array OA
    tOB,      \* the 2D array OB
    talpha,   \* the array alpha
    tbeta,    \* the array beta
    O_total,  \* O_total = np.kron(OA, OB)
    tprinted, \* what the last cell run printed, in order
    \* ---- V1 called on its own (scattering notebook) ----
    vpc,      \* start, returned
    vr,       \* the argument r (times RandDen)
    vout,     \* the value returned, in units of 0.1
    \* ---- plot_sine_series under interact (calculus notebook) ----
    spc,      \* idle (widget made), loop (summing), shown (figure shown)
    slider,   \* the value of the IntSlider
    sN,       \* the argument N of the call
    sn,       \* the loop variable n of range(1, N+1, 2): the next order
    ys,       \* the power series summed so far, as the set of its terms [order, sign]
    title,    \* the order printed in the title, 0 before any figure
    \* ---- fborn2 and the second Born approximation (scattering notebook) ----
    f2pc,       \* idle, returned, AssertionError, summed (f1 + f2 computed)
    f2ret,      \* the value fborn2 returned, [num, den]
    f2consumed, \* ghost: values fborn2 consumed from NumPy's global generator
    f2vcalls,   \* ghost: the bag of points fborn2 called Vfun with
    born2       \* f1 + f2, [num, den]

bornVars == <<bpc, args, n, r1, f1, volume, ret, drawn, vcalls, rngpos, entrypos, ncalls, log>>
kronVars == <<kpc, ka, kb, kpsi, kfoo>>
rhoVars == <<rpc, psi, dimA, rho, rhoA, entropy>>
cellVars == <<nbk, ns, lastrun>>
tensorVars == <<tpc, ta, tb, tOA, tOB, talpha, tbeta, O_total, tprinted>>
v1Vars == <<vpc, vr, vout>>
sineVars == <<spc, slider, sN, sn, ys, title>>
born2Vars == <<f2pc, f2ret, f2consumed, f2vcalls, born2>>
moreVars == <<tensorVars, v1Vars, sineVars, born2Vars>>

vars == <<bornVars, kronVars, rhoVars, cellVars, moreVars>>

------------------------------------------------------------------------------
(* Bounds of the model. *)

\* Resolution of the grid np.random.random() draws from.
RandDen == 3
\* Largest number N of Monte Carlo runs.
MaxN == 2
\* Largest half side L of the sampling box.
MaxL == 2
\* Size of the wavevectors tried (in units of 1e-3).
KMax == 3
\* Calls of fborn1 in a row.
MaxCalls == 2
\* Longest arrays a and b passed to np.kron.
MaxLenA == 2
MaxLenB == 3
\* Largest dimensions of the subsystems A and B.
MaxDimA == 2
MaxDimB == 2
\* Largest lengths of a (and alpha) and of b (and beta) in the tensor product cells.
MaxTA == 2
MaxTB == 3
\* Largest coordinate of the points V1 is tried on, in units of 1/RandDen.
MaxCoord == 4

\* 1e-5 in units of 1e-6.
Tol == 10

\* IntSlider(min=1, max=59, step=2, value=4)
SliderMin == 1
SliderMax == 59
SliderStep == 2
SliderValue == 4

------------------------------------------------------------------------------
(* Complex numbers with integer parts. *)

C(x, y) == [re |-> x, im |-> y]
CZero == C(0, 0)
COne == C(1, 0)
CAdd(a, b) == C(a.re + b.re, a.im + b.im)
CNeg(a) == C(-a.re, -a.im)
CMul(a, b) == C(a.re * b.re - a.im * b.im, a.re * b.im + a.im * b.re)
CScale(k, a) == C(k * a.re, k * a.im)
CConj(a) == C(a.re, -a.im)

\* np.exp(1j * q) for a phase of q quarter turns.
CExp(q) ==
    CASE q % 4 = 0 -> C(1, 0)
      [] q % 4 = 1 -> C(0, 1)
      [] q % 4 = 2 -> C(-1, 0)
      [] q % 4 = 3 -> C(0, -1)

Abs(x) == IF x < 0 THEN -x ELSE x

\* np.dot of two 3-vectors.
Dot(u, v) == u[1] * v[1] + u[2] * v[2] + u[3] * v[3]

VecSub(u, v) == <<u[1] - v[1], u[2] - v[2], u[3] - v[3]>>

------------------------------------------------------------------------------
(* The scattering notebook. *)

\* V1: 0.1 (one unit) inside the unit sphere, 0 outside.  r is times RandDen.
V1BoundaryInside(r) == IF Abs(Dot(r, r)) <= RandDen * RandDen THEN 1 ELSE 0
V1(r) == IF Abs(Dot(r, r)) < RandDen * RandDen THEN 1 ELSE 0

\* The potentials passed as Vfun: V1 of the notebook, and V(x, y, z) = x,
\* which takes both signs.
VFuns == {"V1", "Vx"}

VApply(Vfun, r) ==
    CASE Vfun = "V1" -> V1(r)
      [] Vfun = "Vx" -> r[1]

\* ki along z (as in the plotting cell) and kf in the x-y plane.
KiSet == {<<0, 0, 0>>, <<0, 0, KMax>>}
KfSet == {<<KMax, 0, 0>>, <<KMax, 1, 0>>}

Args == [Vfun : VFuns, ki : KiSet, kf : KfSet, L : 1..MaxL, N : 0..MaxN]

\* The values np.random.random(3) can return, as numerators over RandDen.
Random3 == [1..3 -> 0..(RandDen - 1)]

\* assert abs(np.dot(ki,ki) - np.dot(kf,kf)) < 1e-5
AssertHoldsOff(ki, kf) == Abs(Dot(ki, ki) - Dot(kf, kf)) <= Tol
AssertHolds(ki, kf) == Abs(Dot(ki, ki) - Dot(kf, kf)) < Tol

\* volume = (2*L)**3
Volume(L) == (2 * L) * (2 * L) * (2 * L)

\* r1 = 2 * L * np.random.random(3) - L, times RandDen.
SamplePointNoShift(L, u) == [c \in 1..3 |-> 2 * L * u[c]]
SamplePoint(L, u) == [c \in 1..3 |-> 2 * L * u[c] - L * RandDen]

\* - Vfun(r1) * np.exp(1j * dkr) / (2 * np.pi), with dkr = np.dot(ki - kf, r1)
Integrand(Vfun, ki, kf, r) ==
    LET dkr == Dot(VecSub(ki, kf), r)
    IN  CScale(-VApply(Vfun, r), CExp(dkr))

\* f1 = 0.0
F1Stale(old) == old
F1Init(old) == CZero

\* f1 += ...
AccumulateSkipFirst(acc, k, F) == IF k = 0 THEN acc ELSE CAdd(acc, F)
Accumulate(acc, k, F) == CAdd(acc, F)

\* (1/N) * volume * f1
ReturnValue(N, vol, acc) == [num |-> CScale(vol, acc), den |-> N]

\* Entering fborn1 with arguments a.
fborn1Enter(a) ==
    /\ args' = a
    /\ bpc' = "assert"
    /\ n' = 0
    /\ drawn' = EmptyBag
    /\ vcalls' = EmptyBag
    /\ entrypos' = rngpos
    /\ ncalls' = ncalls + 1
    /\ UNCHANGED <<r1, f1, volume, ret, rngpos>>

\* A call of fborn1 with any arguments.
fborn1Call ==
    /\ bpc = "idle"
    /\ \E a \in Args : fborn1Enter(a)
    /\ UNCHANGED log
    /\ UNCHANGED <<kronVars, rhoVars, cellVars, moreVars>>

\* The assertion, then the two assignments before the loop.
fborn1Assert ==
    /\ bpc = "assert"
    /\ IF AssertHolds(args.ki, args.kf)
       THEN /\ bpc' = "loop"
            /\ volume' = Volume(args.L)
            /\ f1' = F1Init(f1)
       ELSE /\ bpc' = "AssertionError"
            /\ UNCHANGED <<volume, f1>>
    /\ UNCHANGED <<args, n, r1, ret, drawn, vcalls, rngpos, entrypos, ncalls, log>>
    /\ UNCHANGED <<kronVars, rhoVars, cellVars, moreVars>>

\* One iteration of the loop: three draws, one call of Vfun, one addition.
fborn1Iterate ==
    /\ bpc = "loop"
    /\ n < args.N
    /\ \E u \in Random3 :
         LET r == SamplePoint(args.L, u)
         IN  /\ r1' = r
             /\ drawn' = drawn (+) SetToBag({r})
             /\ vcalls' = vcalls (+) SetToBag({r})
             /\ f1' = Accumulate(f1, n, Integrand(args.Vfun, args.ki, args.kf, r))
    /\ rngpos' = rngpos + 3
    /\ n' = n + 1
    /\ UNCHANGED <<bpc, args, volume, ret, entrypos, ncalls, log>>
    /\ UNCHANGED <<kronVars, rhoVars, cellVars, moreVars>>

\* The return statement; 1/N raises ZeroDivisionError for N = 0.
fborn1Return ==
    /\ bpc = "loop"
    /\ n = args.N
    /\ IF args.N = 0
       THEN /\ bpc' = "ZeroDivisionError"
            /\ UNCHANGED ret
       ELSE /\ bpc' = "done"
            /\ ret' = ReturnValue(args.N, volume, f1)
    /\ UNCHANGED <<args, n, r1, f1, volume, drawn, vcalls, rngpos, entrypos, ncalls, log>>
    /\ UNCHANGED <<kronVars, rhoVars, cellVars, moreVars>>

\* Two calls in a row are followed with one Monte Carlo run each.
TwiceArgs == {a \in Args : a.N = 1}

\* The first of several calls with the same arguments.
fborn1CallFirst ==
    /\ bpc = "idle"
    /\ \E a \in TwiceArgs : fborn1Enter(a)
    /\ UNCHANGED log
    /\ UNCHANGED <<kronVars, rhoVars, cellVars, moreVars>>

\* fborn1 called again with the arguments of the call that has just ended.
fborn1CallAgain ==
    /\ bpc \in {"done", "AssertionError", "ZeroDivisionError"}
    /\ ncalls < MaxCalls
    /\ log' = <<[args |-> args, outcome |-> bpc, ret |-> ret, drawn |-> drawn]>>
    /\ fborn1Enter(args)
    /\ UNCHANGED <<kronVars, rhoVars, cellVars, moreVars>>

InitBorn ==
    /\ bpc = "idle"
    /\ args = [Vfun |-> "V1", ki |-> <<0, 0, 0>>, kf |-> <<0, 0, 0>>, L |-> 1, N |-> 0]
    /\ n = 0
    /\ r1 = <<0, 0, 0>>
    /\ f1 = CZero
    /\ volume = 0
    /\ ret = [num |-> CZero, den |-> 1]
    /\ drawn = EmptyBag
    /\ vcalls = EmptyBag
    /\ rngpos = 0
    /\ entrypos = 0
    /\ ncalls = 0
    /\ log = <<>>

------------------------------------------------------------------------------
(* The entanglement notebook: np.kron on 1D arrays. *)

\* Entries of the arrays tried: those of the notebook's a and b, and i.
KronVals == {C(1, 0), C(2, 0), C(3, 0), C(-1, 0), C(0, 1)}

\* The 1D arrays of length 1..m.
Arrays(m) == UNION {[1..d -> KronVals] : d \in 1..m}

\* a = np.array([2., -1.]) and b = np.array([1., 2., 3.])
NotebookA == <<C(2, 0), C(-1, 0)>>
NotebookB == <<C(1, 0), C(2, 0), C(3, 0)>>

\* The products of one entry x of the first array with the second array.
KronRow(x, b) == [j \in 1..Len(b) |-> CMul(x, b[j])]

\* np.kron(a, b) for 1D arrays: the outer product a[:, None] * b[None, :],
\* flattened row by row.
KronColumnMajor(a, b) ==
    [k \in 1..(Len(a) * Len(b)) |->
        CMul(a[((k - 1) % Len(a)) + 1], b[((k - 1) \div Len(a)) + 1])]
RECURSIVE Kron(_, _)
Kron(a, b) ==
    IF a = <<>> THEN <<>>
    ELSE KronRow(Head(a), b) \o Kron(Tail(a), b)

\* psi = np.kron(a, b)
KronCellPsi(a, b) == Kron(a, b)

\* foo = np.kron(b, a)
KronCellFooSameOrder(a, b) == Kron(a, b)
KronCellFoo(a, b) == Kron(b, a)

\* The first kron cell, for any arrays a and b.
KronAB ==
    /\ kpc = "start"
    /\ \E a \in Arrays(MaxLenA), b \in Arrays(MaxLenB) :
          /\ ka' = a
          /\ kb' = b
          /\ kpsi' = KronCellPsi(a, b)
    /\ kpc' = "psi"
    /\ UNCHANGED kfoo
    /\ UNCHANGED <<bornVars, rhoVars, cellVars, moreVars>>

\* The second kron cell.
KronBA ==
    /\ kpc = "psi"
    /\ kfoo' = KronCellFoo(ka, kb)
    /\ kpc' = "foo"
    /\ UNCHANGED <<ka, kb, kpsi>>
    /\ UNCHANGED <<bornVars, rhoVars, cellVars, moreVars>>

InitKron ==
    /\ kpc = "start"
    /\ ka = <<>>
    /\ kb = <<>>
    /\ kpsi = <<>>
    /\ kfoo = <<>>

NextKron ==
    \/ KronAB
    \/ KronBA

------------------------------------------------------------------------------
(* The entanglement notebook: reduced density matrices. *)

RECURSIVE CSum(_)
\* The sum of a sequence of complex numbers.
CSum(s) == IF s = <<>> THEN CZero ELSE CAdd(Head(s), CSum(Tail(s)))

\* np.eye(d)
Eye(d) == [i \in 1..d |-> [j \in 1..d |-> IF i = j THEN COne ELSE CZero]]

\* np.outer(u, v.conj())
OuterConj(u, v) == [i \in 1..Len(u) |-> [j \in 1..Len(v) |-> CMul(u[i], CConj(v[j]))]]

\* <psi|psi>
Norm2(v) == CSum([i \in 1..Len(v) |-> CMul(CConj(v[i]), v[i])]).re

\* The density matrix |psi><psi| / <psi|psi>.
PureRho(v) == [num |-> OuterConj(v, v), den |-> Norm2(v)]

\* rho.shape
Rows(M) == Len(M)
Cols(M) == IF M = <<>> THEN 0 ELSE Len(M[1])

\* reduced_density_matrix_A(rho, dimA): the assertion, dimB, and the value returned.
reduced_density_matrix_A(m, dA) ==
    IF Rows(m.num) = Cols(m.num)
    THEN LET dimB == Rows(m.num) \div dA
         IN  [status |-> "returned", value |-> [num |-> Eye(dA), den |-> 1]]
    ELSE [status |-> "AssertionError", value |-> m]

\* Amplitudes of the state vectors tried.
Amps == {C(0, 0), C(1, 0), C(-1, 0), C(0, 1)}

\* The state vectors of H_A x H_B for dim(H_A) = dA: not all zero.
StateVectors(dA) ==
    UNION {{v \in [1..(dA * dB) -> Amps] : Norm2(v) > 0} : dB \in 1..MaxDimB}

\* - trace(rhoA logm(rhoA)) for a diagonal rhoA: the sum of - p log p over its
\* diagonal entries p, kept as the bag of the p other than 1 (log 1 = 0).
IsDiagonal(M) ==
    \A i \in 1..Len(M) : \A j \in 1..Len(M) : i # j => M[i][j] = CZero

RECURSIVE DiagonalTerms(_, _)
DiagonalTerms(m, k) ==
    IF k = 0 THEN EmptyBag
    ELSE LET p == m.num[k][k]
         IN  IF p = C(m.den, 0)
             THEN DiagonalTerms(m, k - 1)
             ELSE DiagonalTerms(m, k - 1) (+) SetToBag({<<p.re, m.den>>})

Entropy(m) == CASE IsDiagonal(m.num) -> DiagonalTerms(m, Len(m.num))

\* np.log(2) = - (1/2) log(1/2) - (1/2) log(1/2)
Log2 == SetToBag({<<1, 2>>}) (+) SetToBag({<<1, 2>>})

\* up, down, and psi of the check cell, without the factor 1/sqrt(2).
Up == <<C(1, 0), C(0, 0)>>
Down == <<C(0, 0), C(1, 0)>>
Singlet ==
    LET ud == Kron(Up, Down)
        du == Kron(Down, Up)
    IN  [i \in 1..Len(ud) |-> CAdd(ud[i], CNeg(du[i]))]

\* A call of reduced_density_matrix_A with the density matrix of a pure state.
ReduceCall ==
    /\ rpc = "start"
    /\ \E dA \in 1..MaxDimA :
         \E v \in StateVectors(dA) :
            LET out == reduced_density_matrix_A(PureRho(v), dA)
            IN  /\ psi' = v
                /\ dimA' = dA
                /\ rho' = PureRho(v)
                /\ rhoA' = out.value
                /\ rpc' = IF out.status = "returned" THEN "reduced" ELSE out.status
    /\ UNCHANGED entropy
    /\ UNCHANGED <<bornVars, kronVars, cellVars, moreVars>>

\* The check cell of Task 2.
EntropyCheckCell ==
    /\ rpc = "start"
    /\ LET out == reduced_density_matrix_A(PureRho(Singlet), 2)
       IN  /\ psi' = Singlet
           /\ dimA' = 2
           /\ rho' = PureRho(Singlet)
           /\ rhoA' = out.value
           /\ IF out.status = "returned"
              THEN /\ entropy' = Entropy(out.value)
                   /\ rpc' = "checked"
              ELSE /\ rpc' = out.status
                   /\ UNCHANGED entropy
    /\ UNCHANGED <<bornVars, kronVars, cellVars, moreVars>>

InitRho ==
    /\ rpc = "start"
    /\ psi = <<>>
    /\ dimA = 1
    /\ rho = [num |-> <<>>, den |-> 1]
    /\ rhoA = [num |-> <<>>, den |-> 1]
    /\ entropy = EmptyBag

NextRho ==
    \/ ReduceCall
    \/ EntropyCheckCell

------------------------------------------------------------------------------
(* The entanglement notebook: tensor products of 2D arrays and the partial     *)
(* projections.  A 1D array is a sequence of complex numbers and a 2D array a  *)
(* sequence of rows.                                                           *)

\* M.T
Transpose(M) == [j \in 1..Cols(M) |-> [i \in 1..Rows(M) |-> M[i][j]]]

\* M.shape
Shape(M) == <<Rows(M), Cols(M)>>

\* v.conj() of a 1D array.
Conj(v) == [k \in 1..Len(v) |-> CConj(v[k])]

\* np.dot(u, v) of two 1D arrays: the sum of u[k] * v[k], nothing conjugated.
DotVV(u, v) == CSum([k \in 1..Len(u) |-> CMul(u[k], v[k])])

\* np.dot(M, v) of a 2D and a 1D array.
DotMV(M, v) == [i \in 1..Rows(M) |-> DotVV(M[i], v)]

\* np.dot(v, M) of a 1D and a 2D array.
DotVM(v, M) ==
    [j \in 1..Cols(M) |-> CSum([i \in 1..Len(v) |-> CMul(v[i], M[i][j])])]

\* c * v for a scalar c and a 1D array v.
ScaleV(c, v) == [k \in 1..Len(v) |-> CMul(c, v[k])]

\* np.kron(A, B) of two 2D arrays: the block at (i, j) is A[i][j] * B.
Kron2DSwapped(A, B) ==
    [r \in 1..(Rows(A) * Rows(B)) |-> [c \in 1..(Cols(A) * Cols(B)) |->
        CMul(B[((r - 1) \div Rows(A)) + 1][((c - 1) \div Cols(A)) + 1],
             A[((r - 1) % Rows(A)) + 1][((c - 1) % Cols(A)) + 1])]]
Kron2D(A, B) ==
    [r \in 1..(Rows(A) * Rows(B)) |-> [c \in 1..(Cols(A) * Cols(B)) |->
        CMul(A[((r - 1) \div Rows(B)) + 1][((c - 1) \div Cols(B)) + 1],
             B[((r - 1) % Rows(B)) + 1][((c - 1) % Cols(B)) + 1])]]

\* np.kron of a 1D and a 2D array takes the 1D array as a single row, shape (1, n).
AsRow(v) == <<v>>

\* projector = np.kron(alpha.conj(), OB)
LeftProjectorAlphaNoConj(alpha, OB) == Kron2D(AsRow(alpha), OB)
LeftProjectorAlpha(alpha, OB) == Kron2D(AsRow(Conj(alpha)), OB)

\* projector = np.kron(OA, beta.conj())
LeftProjectorBeta(OA, beta) == Kron2D(OA, AsRow(Conj(beta)))

\* projector1 = np.kron(alpha, OB.T).T
RightProjector1NoInnerT(alpha, OB) == Transpose(Kron2D(AsRow(alpha), OB))
RightProjector1(alpha, OB) == Transpose(Kron2D(AsRow(alpha), Transpose(OB)))

\* projector2 = np.kron(OA.T, beta).T
RightProjector2(OA, beta) == Transpose(Kron2D(Transpose(OA), AsRow(beta)))

\* The arrays of the example cells.
NotebookTa == <<C(2, 1), C(0, 1)>>
NotebookTb == <<C(0, -1), C(2, 0), C(1, -1)>>
NotebookOA == << <<C(2, 0), C(1, 0)>>, <<C(0, 1), C(1, 0)>> >>
NotebookOB ==
    << <<C(1, 0), C(0, 2), C(3, 0)>>,
       <<C(0, 0), C(4, 0), C(0, 0)>>,
       <<C(1, 0), C(0, 0), C(0, 1)>> >>
NotebookAlpha == <<C(2, 1), C(1, -2)>>
NotebookBeta == <<C(2, 1), C(1, -2), C(-1, -1)>>

\* The arrays a and b of length d tried: the unit vectors, a dense complex one,
\* and the notebook's own of that length.
UnitVec(d, k) == [j \in 1..d |-> IF j = k THEN COne ELSE CZero]
DenseVec(d) == [j \in 1..d |-> C(j, j - 2)]
TVecs(d) ==
    {UnitVec(d, k) : k \in 1..d} \cup {DenseVec(d)}
    \cup {v \in {NotebookTa, NotebookTb} : Len(v) = d}

\* The arrays alpha and beta of length d tried: a dense complex one, and the
\* notebook's own of that length.
DenseBra(d) == [j \in 1..d |-> C(j - 2, 3 - 2 * j)]
TBras(d) ==
    {DenseBra(d)} \cup {v \in {NotebookAlpha, NotebookBeta} : Len(v) = d}

\* The d x d arrays tried: the matrix units, a dense complex one that is not
\* symmetric, and the notebook's own of that size.
UnitMat(d, k, l) ==
    [i \in 1..d |-> [j \in 1..d |-> IF i = k /\ j = l THEN COne ELSE CZero]]
DenseMat(d) == [i \in 1..d |-> [j \in 1..d |-> C(i - 2 * j, i * j - 2)]]
TMats(d) ==
    {UnitMat(d, k, l) : k \in 1..d, l \in 1..d} \cup {DenseMat(d)}
    \cup {M \in {NotebookOA, NotebookOB} : Rows(M) = d}

\* The mixed-product cell: defines a, b, OA, OB and O_total, prints LHS and RHS.
MixedProductCell ==
    /\ tpc = "start"
    /\ \E dA \in 1..MaxTA, dB \in 1..MaxTB :
         \E a \in TVecs(dA), b \in TVecs(dB), OA \in TMats(dA), OB \in TMats(dB) :
            /\ ta' = a
            /\ tb' = b
            /\ tOA' = OA
            /\ tOB' = OB
            /\ O_total' = Kron2D(OA, OB)
            /\ LET OAa == DotMV(OA, a)
                   OBb == DotMV(OB, b)
               IN  tprinted' = <<DotMV(Kron2D(OA, OB), Kron(a, b)), Kron(OAa, OBb)>>
    /\ tpc' = "mixed"
    /\ UNCHANGED <<talpha, tbeta>>
    /\ UNCHANGED <<bornVars, kronVars, rhoVars, cellVars, v1Vars, sineVars, born2Vars>>

\* The left-projection cell: defines alpha and beta, reads a, b, OA and OB.
LeftProjectionCell ==
    /\ tpc = "mixed"
    /\ \E alpha \in TBras(Len(ta)), beta \in TBras(Len(tb)) :
          /\ talpha' = alpha
          /\ tbeta' = beta
          /\ LET projectorA == LeftProjectorAlpha(alpha, tOB)
                 projectorB == LeftProjectorBeta(tOA, beta)
             IN  tprinted' =
                    <<DotMV(projectorA, Kron(ta, tb)),
                      ScaleV(DotVV(Conj(alpha), ta), DotMV(tOB, tb)),
                      Shape(projectorA),
                      DotMV(projectorB, Kron(ta, tb)),
                      ScaleV(DotVV(Conj(beta), tb), DotMV(tOA, ta)),
                      Shape(projectorB)>>
    /\ tpc' = "left"
    /\ UNCHANGED <<ta, tb, tOA, tOB, O_total>>
    /\ UNCHANGED <<bornVars, kronVars, rhoVars, cellVars, v1Vars, sineVars, born2Vars>>

\* The right-projection cell: reads a, b, alpha, beta, OA and OB.
RightProjectionCell ==
    /\ tpc = "left"
    /\ LET projector1 == RightProjector1(talpha, tOB)
           projector2 == RightProjector2(tOA, tbeta)
       IN  tprinted' =
              <<DotVM(Conj(Kron(ta, tb)), projector1),
                ScaleV(DotVV(Conj(ta), talpha), DotVM(Conj(tb), tOB)),
                DotVM(Conj(Kron(ta, tb)), projector2),
                ScaleV(DotVV(Conj(tb), tbeta), DotVM(Conj(ta), tOA))>>
    /\ tpc' = "right"
    /\ UNCHANGED <<ta, tb, tOA, tOB, talpha, tbeta, O_total>>
    /\ UNCHANGED <<bornVars, kronVars, rhoVars, cellVars, v1Vars, sineVars, born2Vars>>

InitTensor ==
    /\ tpc = "start"
    /\ ta = <<>>
    /\ tb = <<>>
    /\ tOA = <<>>
    /\ tOB = <<>>
    /\ talpha = <<>>
    /\ tbeta = <<>>
    /\ O_total = <<>>
    /\ tprinted = <<>>

NextTensor ==
    \/ MixedProductCell
    \/ LeftProjectionCell
    \/ RightProjectionCell

------------------------------------------------------------------------------
(* The scattering notebook: V1 called on its own. *)

\* The points r tried: a grid of the cube of half side MaxCoord/RandDen.
Points == [1..3 -> (-MaxCoord)..MaxCoord]

\* A call V1(r).
V1Call ==
    /\ vpc = "start"
    /\ \E r \in Points :
          /\ vr' = r
          /\ vout' = V1(r)
    /\ vpc' = "returned"
    /\ UNCHANGED <<bornVars, kronVars, rhoVars, cellVars, tensorVars, sineVars, born2Vars>>

InitV1 ==
    /\ vpc = "start"
    /\ vr = <<0, 0, 0>>
    /\ vout = 0

NextV1 == V1Call

------------------------------------------------------------------------------
(* The calculus notebook: plot_sine_series, called by interact with the value   *)
(* of the IntSlider when the widget is made and whenever the value changes.     *)

\* The values the slider can be moved to: min, min + step, ... up to max.
SliderStops ==
    {v \in SliderMin..SliderMax : (v - SliderMin) % SliderStep = 0}

\* (-1)**(0.5*(n-1)) for odd n.
TermSign(k) == IF ((k - 1) \div 2) % 2 = 0 THEN 1 ELSE -1

\* Entering plot_sine_series(N): ys = zeros(len(x)), and the loop starts at 1.
plot_sine_seriesEnter(N) ==
    /\ sN' = N
    /\ sn' = 1
    /\ ys' = {}
    /\ spc' = "loop"

\* interact calls plot_sine_series with the slider's initial value.
InteractDisplay ==
    /\ spc = "idle"
    /\ plot_sine_seriesEnter(slider)
    /\ UNCHANGED <<slider, title>>
    /\ UNCHANGED <<bornVars, kronVars, rhoVars, cellVars, tensorVars, v1Vars, born2Vars>>

\* The slider is moved, and interact calls plot_sine_series with the new value.
SliderMove ==
    /\ spc = "shown"
    /\ \E v \in SliderStops \ {slider} :
          /\ slider' = v
          /\ plot_sine_seriesEnter(v)
    /\ UNCHANGED title
    /\ UNCHANGED <<bornVars, kronVars, rhoVars, cellVars, tensorVars, v1Vars, born2Vars>>

\* for n in range(1, N+1, 2): ys += x**n * (-1)**(0.5*(n-1)) / factorial(n)
SeriesTerm ==
    /\ spc = "loop"
    /\ sn < sN + 1
    /\ ys' = ys \cup {[order |-> sn, sign |-> TermSign(sn)]}
    /\ sn' = sn + 2
    /\ UNCHANGED <<spc, slider, sN, title>>
    /\ UNCHANGED <<bornVars, kronVars, rhoVars, cellVars, tensorVars, v1Vars, born2Vars>>

\* The loop has ended: the figure is drawn with 'summed to order N' as its title.
SeriesShow ==
    /\ spc = "loop"
    /\ ~(sn < sN + 1)
    /\ title' = sN
    /\ spc' = "shown"
    /\ UNCHANGED <<slider, sN, sn, ys>>
    /\ UNCHANGED <<bornVars, kronVars, rhoVars, cellVars, tensorVars, v1Vars, born2Vars>>

InitSine ==
    /\ spc = "idle"
    /\ slider = SliderValue
    /\ sN = 0
    /\ sn = 0
    /\ ys = {}
    /\ title = 0

NextSine ==
    \/ InteractDisplay
    \/ SliderMove
    \/ SeriesTerm
    \/ SeriesShow

------------------------------------------------------------------------------
(* The scattering notebook: fborn2, and the second Born approximation f1 + f2  *)
(* of Task 2.                                                                  *)

\* fborn2(Vfun, ki, kf, L, N): how the call ends, the value returned, the number
\* of values it consumes from the global generator and the points it calls Vfun
\* with.  The body is `return 0.0`.
fborn2LikeFborn1(Vfun, ki, kf, L, N) ==
    IF AssertHolds(ki, kf)
    THEN [outcome |-> "returned",
          value |-> [num |-> CScale(Volume(L) * Volume(L) * N, COne), den |-> 1],
          consumed |-> 6 * N,
          vcalls |-> IF N = 0 THEN EmptyBag ELSE SetToBag({<<0, 0, 0>>})]
    ELSE [outcome |-> "AssertionError",
          value |-> [num |-> CZero, den |-> 1],
          consumed |-> 0,
          vcalls |-> EmptyBag]
fborn2(Vfun, ki, kf, L, N) ==
    [outcome |-> "returned",
     value |-> [num |-> CZero, den |-> 1],
     consumed |-> 0,
     vcalls |-> EmptyBag]

\* x + y for two quotients.
QAdd(x, y) ==
    [num |-> CAdd(CScale(y.den, x.num), CScale(x.den, y.num)), den |-> x.den * y.den]

\* fborn2 called with the arguments fborn1 was called with, whether fborn1
\* returned or raised.
fborn2Call ==
    /\ f2pc = "idle"
    /\ bpc \in {"done", "AssertionError", "ZeroDivisionError"}
    /\ LET out == fborn2(args.Vfun, args.ki, args.kf, args.L, args.N)
       IN  /\ f2pc' = out.outcome
           /\ f2ret' = out.value
           /\ f2consumed' = out.consumed
           /\ f2vcalls' = out.vcalls
           /\ rngpos' = rngpos + out.consumed
    /\ UNCHANGED born2
    /\ UNCHANGED <<bpc, args, n, r1, f1, volume, ret, drawn, vcalls, entrypos, ncalls, log>>
    /\ UNCHANGED <<kronVars, rhoVars, cellVars, tensorVars, v1Vars, sineVars>>

\* The second Born approximation: f1 + f2, where fborn1 returned f1.
SecondBorn ==
    /\ f2pc = "returned"
    /\ bpc = "done"
    /\ born2' = QAdd(ret, f2ret)
    /\ f2pc' = "summed"
    /\ UNCHANGED <<f2ret, f2consumed, f2vcalls>>
    /\ UNCHANGED <<bornVars, kronVars, rhoVars, cellVars, tensorVars, v1Vars, sineVars>>

InitBorn2 ==
    /\ f2pc = "idle"
    /\ f2ret = [num |-> CZero, den |-> 1]
    /\ f2consumed = 0
    /\ f2vcalls = EmptyBag
    /\ born2 = [num |-> CZero, den |-> 1]

NextBorn2 ==
    \/ fborn1Call
    \/ fborn1Assert
    \/ fborn1Iterate
    \/ fborn1Return
    \/ fborn2Call
    \/ SecondBorn

------------------------------------------------------------------------------
(* The code cells of the notebooks, run in a Jupyter kernel.  A cell is the    *)
(* sequence of its statements; a statement reads global names and binds global *)
(* names.  A call of a function defined with def reads the globals its body    *)
(* uses when it is called, not when it is defined.                             *)

St(reads, binds) == [reads |-> reads, binds |-> binds]

Notebooks == {"scattering", "entanglement", "calculus", "waves"}

CellsOf(nb) ==
    CASE nb = "scattering" -> {"S1", "S2", "S3", "S4", "S5"}
      [] nb = "entanglement" -> {"E1", "E2", "E3", "E4", "E5", "E6", "E7", "E8", "E9"}
      [] nb = "calculus" -> {"K1", "K2", "K3", "K4", "K5"}
      [] nb = "waves" -> {"W1", "W2"}

\* Scattering notebook.
\* S1: imports and def fborn1.
CellS1 == <<St({}, {"np"}), St({}, {"plt"}), St({}, {"fborn1"})>>
\* S2: def fborn2.
CellS2 == <<St({}, {"fborn2"})>>
\* S3: def V1.
CellS3 == <<St({}, {"V1"})>>
\* S4: the Born plotting cell.
CellS4 ==
    << St({}, {"IntProgress"}),
       St({}, {"display"}),
       St({}, {"nd"}), St({}, {"Emin"}), St({}, {"Emax"}), St({}, {"L"}),
       St({"IntProgress", "nd"}, {"progress_bar"}),
       St({"display", "progress_bar"}, {}),
       St({"np", "Emin", "Emax", "nd"}, {"Evec"}),
       St({"np", "Evec"}, {"fvec"}),
       St({"nd"}, {"n"}),
       St({"np", "Evec", "n"}, {"k"}),
       St({"np", "k"}, {"ki"}),
       St({"np", "k"}, {"kf"}),
       St({"fborn1", "V1", "ki", "kf", "L", "fvec", "n", "np"}, {}),
       St({"progress_bar"}, {}),
       St({"plt", "Evec", "fvec"}, {}),
       St({"plt"}, {}) >>
\* S5: the empty cell of Task 3.
CellS5 == <<>>

\* Entanglement notebook.
\* E1: psi = np.kron(a, b).
CellE1 ==
    << St({}, {"np"}),
       St({"np"}, {"a"}),
       St({"np"}, {"b"}),
       St({"np", "a", "b"}, {"psi"}),
       St({"psi"}, {}) >>
\* E2: foo = np.kron(b, a).
CellE2 == <<St({"np", "b", "a"}, {"foo"}), St({"foo"}, {})>>
\* E3: the example of kron(OA, OB).
CellE3 ==
    << St({"np"}, {"a"}),
       St({"np"}, {"b"}),
       St({"np"}, {"OA"}),
       St({"np"}, {"OB"}),
       St({"np", "OA", "OB"}, {"O_total"}),
       St({"np", "OA", "a"}, {"OAa"}),
       St({"np", "OB", "b"}, {"OBb"}),
       St({"np", "O_total", "a", "b"}, {}),
       St({"np", "OAa", "OBb"}, {}) >>
\* E4: the basis vectors of Task 1.
CellE4 ==
    << St({"np"}, {"m"}), St({"np"}, {"n"}), St({"np"}, {"p"}),
       St({"np"}, {"q"}), St({"np"}, {"r"}) >>
\* E5: the left projection cell.
CellE5 ==
    << St({"np"}, {"alpha"}),
       St({"np", "alpha", "OB"}, {"projector"}),
       St({"np", "projector", "a", "b"}, {}),
       St({"np", "alpha", "a", "OB", "b"}, {}),
       St({"projector"}, {}),
       St({"np"}, {"beta"}),
       St({"np", "OA", "beta"}, {"projector"}),
       St({"np", "projector", "a", "b"}, {}),
       St({"np", "beta", "b", "OA", "a"}, {}),
       St({"projector"}, {}) >>
\* E6: the right projection cell.
CellE6 ==
    << St({"np", "alpha", "OB"}, {"projector1"}),
       St({"np", "a", "b", "projector1"}, {}),
       St({"np", "a", "alpha", "b", "OB"}, {}),
       St({"np", "OA", "beta"}, {"projector2"}),
       St({"np", "a", "b", "projector2"}, {}),
       St({"np", "b", "beta", "a", "OA"}, {}) >>
\* E7: def reduced_density_matrix_A.
CellE7 == <<St({}, {"reduced_density_matrix_A"})>>
\* E8: the entropy check cell.
CellE8 ==
    << St({"np"}, {"up"}),
       St({"np"}, {"down"}),
       St({"np", "up", "down"}, {"psi"}),
       St({"np", "psi"}, {"rho"}),
       St({"reduced_density_matrix_A", "rho", "np"}, {"rhoA"}),
       St({}, {"logm"}),
       St({"np", "rhoA", "logm"}, {"S"}),
       St({"S"}, {}),
       St({"np"}, {}) >>
\* E9: the starter code of Task 3.
CellE9 ==
    << St({}, {"plt"}),
       St({}, {"d"}),
       St({"np", "d"}, {"A"}),
       St({"np", "d", "A"}, {"V"}),
       St({}, {"eigvalsh"}),
       St({"eigvalsh", "V"}, {"E"}),
       St({"plt", "E"}, {}),
       St({"plt"}, {}) >>

\* Calculus notebook.
\* K1: plot_derivative.
CellK1 ==
    << St({}, {"interact", "FloatSlider"}),
       St({}, {"linspace"}),
       St({}, {"plt"}),
       St({}, {"plot_derivative"}),
       St({"interact", "plot_derivative", "FloatSlider", "linspace", "plt"}, {}) >>
\* K2: the derivative of x^2 + 1.
CellK2 ==
    << St({}, {"x"}), St({}, {"dx"}),
       St({"x", "dx"}, {"derivative_estimate"}),
       St({"derivative_estimate"}, {}),
       St({"x"}, {}) >>
\* K3: the derivative of exp.
CellK3 ==
    << St({}, {"x"}), St({}, {"dx"}),
       St({}, {"exp"}),
       St({"exp", "x", "dx"}, {"derivative_estimate"}),
       St({"derivative_estimate"}, {}),
       St({"exp", "x"}, {}) >>
\* K4: plot_sine_series.
CellK4 ==
    << St({}, {"interact", "IntSlider"}),
       St({}, {"linspace", "zeros", "sin"}),
       St({}, {"factorial"}),
       St({}, {"plt"}),
       St({}, {"plot_sine_series"}),
       St({"interact", "plot_sine_series", "IntSlider",
           "linspace", "zeros", "sin", "factorial", "plt"}, {}) >>
\* K5: plot_log_series.
CellK5 ==
    << St({}, {"interact", "IntSlider"}),
       St({}, {"linspace", "zeros", "log"}),
       St({}, {"plt"}),
       St({}, {"plot_log_series"}),
       St({"interact", "plot_log_series", "IntSlider",
           "linspace", "zeros", "log", "plt"}, {}) >>

\* Complex waves notebook.
\* W1: plot_traveling_wave.
CellW1 ==
    << St({}, {"interact", "FloatSlider"}),
       St({}, {"linspace", "cos"}),
       St({}, {"plt"}),
       St({}, {"plot_traveling_wave"}),
       St({"interact", "plot_traveling_wave", "FloatSlider",
           "linspace", "cos", "plt"}, {}) >>
\* W2: plot_complex_wave.
CellW2 ==
    << St({}, {"interact", "FloatSlider", "ToggleButtons"}),
       St({}, {"linspace", "exp", "sign"}),
       St({}, {"plt"}),
       St({}, {"plot_complex_wave"}),
       St({"interact", "plot_complex_wave", "ToggleButtons", "FloatSlider",
           "linspace", "exp", "plt"}, {}) >>

CellStmts(c) ==
    CASE c = "S1" -> CellS1 [] c = "S2" -> CellS2 [] c = "S3" -> CellS3
      [] c = "S4" -> CellS4 [] c = "S5" -> CellS5
      [] c = "E1" -> CellE1 [] c = "E2" -> CellE2 [] c = "E3" -> CellE3
      [] c = "E4" -> CellE4 [] c = "E5" -> CellE5 [] c = "E6" -> CellE6
      [] c = "E7" -> CellE7 [] c = "E8" -> CellE8 [] c = "E9" -> CellE9
      [] c = "K1" -> CellK1 [] c = "K2" -> CellK2 [] c = "K3" -> CellK3
      [] c = "K4" -> CellK4 [] c = "K5" -> CellK5
      [] c = "W1" -> CellW1 [] c = "W2" -> CellW2

\* The namespace with nothing bound.
EmptyNs == [x \in {} |-> "none"]

\* The namespace a cell's statements look names up in: the kernel's.
PrivateNamespace(env) == EmptyNs
CellNamespace(env) == env

\* An assignment, import or def of cell c binding the names.
Bind(env, names, c) == [x \in names |-> c] @@ env

RECURSIVE ExecStmts(_, _, _, _, _)
\* The statements run in order until one reads an unbound name (NameError).
\* local: the names this run has bound; inputs: the bindings it read that it
\* had not bound itself.
ExecStmts(stmts, env, c, local, inputs) ==
    IF stmts = <<>>
    THEN [ns |-> env, status |-> "ok", inputs |-> inputs]
    ELSE LET st == Head(stmts)
         IN  IF st.reads \subseteq DOMAIN env
             THEN ExecStmts(Tail(stmts), Bind(env, st.binds, c), c,
                            local \cup st.binds,
                            [x \in (st.reads \ local) |-> env[x]] @@ inputs)
             ELSE [ns |-> env, status |-> "NameError", inputs |-> inputs]

\* Kernel > Restart, or opening a notebook: a fresh kernel.
KernelRestart ==
    /\ \E nb \in Notebooks : nbk' = nb
    /\ ns' = EmptyNs
    /\ lastrun' = [cell |-> "none", status |-> "none", before |-> EmptyNs, inputs |-> EmptyNs]
    /\ UNCHANGED <<bornVars, kronVars, rhoVars, moreVars>>

\* Running one code cell of the notebook.  The bindings made before a
\* NameError stay in the kernel.
RunCell ==
    /\ \E c \in CellsOf(nbk) :
          LET out == ExecStmts(CellStmts(c), CellNamespace(ns), c, {}, EmptyNs)
          IN  /\ ns' = out.ns @@ ns
              /\ lastrun' = [cell |-> c, status |-> out.status,
                             before |-> ns, inputs |-> out.inputs]
    /\ UNCHANGED nbk
    /\ UNCHANGED <<bornVars, kronVars, rhoVars, moreVars>>

InitCells ==
    /\ nbk = "scattering"
    /\ ns = EmptyNs
    /\ lastrun = [cell |-> "none", status |-> "none", before |-> EmptyNs, inputs |-> EmptyNs]

NextCells ==
    \/ KernelRestart
    \/ RunCell

------------------------------------------------------------------------------

Init == InitBorn /\ InitKron /\ InitRho /\ InitCells /\ InitTensor /\ InitV1 /\ InitSine /\ InitBorn2

Next ==
    \/ fborn1Call
    \/ fborn1Assert
    \/ fborn1Iterate
    \/ fborn1Return

Spec == Init /\ [][Next]_vars

NextTwice ==
    \/ fborn1CallFirst
    \/ fborn1CallAgain
    \/ fborn1Assert
    \/ fborn1Iterate
    \/ fborn1Return

SpecTwice == Init /\ [][NextTwice]_vars

SpecKron == Init /\ [][NextKron]_vars

SpecRho == Init /\ [][NextRho]_vars

SpecCells == Init /\ [][NextCells]_vars

SpecTensor == Init /\ [][NextTensor]_vars

SpecV1 == Init /\ [][NextV1]_vars

SpecSine == Init /\ [][NextSine]_vars

SpecBorn2 == Init /\ [][NextBorn2]_vars

------------------------------------------------------------------------------
(* Properties of fborn1. *)

\* C1: fborn1 fails with an AssertionError exactly when |ki.ki - kf.kf| >= 1e-5,
\* and it does so before any random sample is drawn and before Vfun is called;
\* when |ki.ki - kf.kf| < 1e-5 the assertion passes.
C1_AssertionGuardsMagnitudes ==
    LET diff == Abs(Dot(args.ki, args.ki) - Dot(args.kf, args.kf))
    IN  /\ bpc = "AssertionError" =>
              /\ diff >= Tol
              /\ rngpos = entrypos
              /\ drawn = EmptyBag
              /\ vcalls = EmptyBag
        /\ bpc \in {"loop", "done", "ZeroDivisionError"} => diff < Tol
        /\ bpc = "assert" => rngpos = entrypos /\ drawn = EmptyBag /\ vcalls = EmptyBag

\* A call with N >= 1 failed on magnitudes that differ by exactly the tolerance.
C1_Witness ==
    /\ bpc = "AssertionError"
    /\ args.N >= 1
    /\ Abs(Dot(args.ki, args.ki) - Dot(args.kf, args.kf)) = Tol

\* F(r) = -Vfun(r) * exp(i (ki - kf).r) / (2*pi), in units of 0.1/(2*pi).
ExpectedF(a, r) ==
    CMul(C(-VApply(a.Vfun, r), 0), CExp(Dot(a.ki, r) - Dot(a.kf, r)))

RECURSIVE SumOfF(_, _, _)
\* The sum of F over the points of bag B that lie in S, each as often as B holds it.
SumOfF(S, B, a) ==
    IF S = {} THEN CZero
    ELSE LET r == CHOOSE x \in S : TRUE
         IN  CAdd(CScale(B[r], ExpectedF(a, r)), SumOfF(S \ {r}, B, a))

\* C2: for N >= 1 fborn1 returns ((2L)^3 / N) * sum_{n=1..N} F(r_n) over the N
\* points it sampled, each counted once.
C2_ReturnsScaledMean ==
    /\ bpc = "done" =>
          LET total == SumOfF(BagToSet(drawn), drawn, args)
              cube  == 8 * args.L * args.L * args.L
          IN  /\ args.N >= 1
              /\ BagCardinality(drawn) = args.N
              /\ ret.den # 0
              /\ CScale(args.N, ret.num) = CScale(ret.den * cube, total)
    /\ bpc = "ZeroDivisionError" => args.N = 0

\* A call with two runs returned; the two points differ and their integrand
\* values are two different non-zero numbers, one of them imaginary.
C2_Witness ==
    /\ bpc = "done"
    /\ args.N = 2
    /\ \E p, q \in BagToSet(drawn) :
          /\ p # q
          /\ ExpectedF(args, p) # ExpectedF(args, q)
          /\ ExpectedF(args, p).im # 0
          /\ ExpectedF(args, q) # CZero
    /\ ret.num # CZero

\* C3: every point passed to Vfun has its three coordinates in [-L, L].
C3_SamplesInBox ==
    /\ \A r \in BagToSet(vcalls) :
          \A c \in 1..3 : -args.L * RandDen <= r[c] /\ r[c] <= args.L * RandDen
    /\ (bpc \in {"loop", "done"} /\ n > 0) =>
          /\ r1 \in BagToSet(vcalls)
          /\ args.L > 0

\* Vfun was called with a point on the face x = -L of the largest box.
C3_Witness ==
    /\ bpc = "loop"
    /\ n >= 1
    /\ args.L = MaxL
    /\ r1[1] = -args.L * RandDen
    /\ r1[2] > 0
    /\ r1 \in BagToSet(vcalls)

------------------------------------------------------------------------------
(* Properties of reduced_density_matrix_A. *)

IsHermitian(M) ==
    \A i \in 1..Len(M) : \A j \in 1..Len(M) : M[i][j] = CConj(M[j][i])

\* The trace of a square matrix.
Trace(M) == CSum([i \in 1..Len(M) |-> M[i][i]])

RECURSIVE SortedSeq(_)
\* The members of a set of integers in increasing order.
SortedSeq(S) ==
    IF S = {} THEN <<>>
    ELSE LET m == CHOOSE x \in S : \A y \in S : x <= y
         IN  <<m>> \o SortedSeq(S \ {m})

RemoveAt(s, k) == [i \in 1..(Len(s) - 1) |-> IF i < k THEN s[i] ELSE s[i + 1]]

RECURSIVE DetOn(_, _, _)
\* The determinant of the rows and columns of M listed, expanded along the first row.
DetOn(M, rows, cols) ==
    IF rows = <<>> THEN COne
    ELSE CSum([k \in 1..Len(cols) |->
                 CScale(IF k % 2 = 1 THEN 1 ELSE -1,
                        CMul(M[rows[1]][cols[k]],
                             DetOn(M, Tail(rows), RemoveAt(cols, k))))])

\* A Hermitian matrix has no negative eigenvalue iff every principal minor is >= 0.
IsPositiveSemidefinite(M) ==
    \A S \in (SUBSET (1..Len(M))) \ {{}} :
        LET minor == DetOn(M, SortedSeq(S), SortedSeq(S))
        IN  minor.im = 0 /\ minor.re >= 0

\* den * I - num, whose eigenvalues are den * (1 - p) for the eigenvalues p of num/den.
Complement(m) ==
    [i \in 1..Len(m.num) |-> [j \in 1..Len(m.num) |->
        CAdd(IF i = j THEN C(m.den, 0) ELSE CZero, CNeg(m.num[i][j]))]]

\* C4 as stated: for a pure state rho and dimA = dim(H_A), the matrix returned is
\* Hermitian, its eigenvalues lie between 0 and 1, and its trace is 1.
C4_ReturnsDensityMatrix ==
    rpc = "reduced" =>
        /\ IsHermitian(rhoA.num)
        /\ IsPositiveSemidefinite(rhoA.num)
        /\ IsPositiveSemidefinite(Complement(rhoA))
        /\ Trace(rhoA.num) = C(rhoA.den, 0)

\* C5 as stated: the matrix returned is the partial trace of rho over B,
\* result[i][j] = sum over b of rho[i*dimB + b][j*dimB + b].
C5_ReturnsPartialTrace ==
    rpc = "reduced" =>
        LET dimB == Rows(rho.num) \div dimA
        IN  /\ Rows(rhoA.num) = dimA
            /\ Cols(rhoA.num) = dimA
            /\ \A i \in 0..(dimA - 1) : \A j \in 0..(dimA - 1) :
                  CScale(rho.den, rhoA.num[i + 1][j + 1]) =
                  CScale(rhoA.den,
                         CSum([b \in 1..dimB |->
                                 rho.num[i * dimB + b][j * dimB + b]]))

\* C6 as stated: on the singlet state the check cell prints S = log(2), the
\* reduced density matrix being one half of the 2x2 identity.
C6_SingletEntropyIsLog2 ==
    rpc = "checked" =>
        /\ entropy = Log2
        /\ \A i \in 1..2 : \A j \in 1..2 :
              CScale(2, rhoA.num[i][j]) = CScale(rhoA.den, Eye(2)[i][j])

------------------------------------------------------------------------------
(* Properties of np.kron on 1D arrays. *)

\* C9: kron(a, b) has length dA*dB and holds a[i]*b[j] at index i*dB + j,
\* whether or not dA = dB.
C9_KronEntries ==
    kpc \in {"psi", "foo"} =>
        LET dA == Len(ka)
            dB == Len(kb)
        IN  /\ Len(kpsi) = dA * dB
            /\ \A i \in 0..(dA - 1) : \A j \in 0..(dB - 1) :
                  kpsi[i * dB + j + 1] = CMul(ka[i + 1], kb[j + 1])

\* The notebook's a and b, of lengths 2 and 3, give the output the notebook records.
C9_Witness ==
    /\ kpc = "psi"
    /\ ka = NotebookA
    /\ kb = NotebookB
    /\ kpsi = <<C(2, 0), C(4, 0), C(6, 0), C(-1, 0), C(-2, 0), C(-3, 0)>>

\* C10: kron(b, a) holds the product a[i]*b[j] at index j*dA + i, where kron(a, b)
\* holds it at index i*dB + j, and for the notebook's a and b the two differ.
C10_KronNotCommutative ==
    kpc = "foo" =>
        LET dA == Len(ka)
            dB == Len(kb)
        IN  /\ Len(kfoo) = dA * dB
            /\ \A i \in 0..(dA - 1) : \A j \in 0..(dB - 1) :
                  /\ kfoo[j * dA + i + 1] = CMul(ka[i + 1], kb[j + 1])
                  /\ kfoo[j * dA + i + 1] = kpsi[i * dB + j + 1]
            /\ (ka = NotebookA /\ kb = NotebookB) => kfoo # kpsi

\* The notebook's kron(b, a), with the output the notebook records.
C10_Witness ==
    /\ kpc = "foo"
    /\ ka = NotebookA
    /\ kb = NotebookB
    /\ kfoo = <<C(2, 0), C(-1, 0), C(4, 0), C(-2, 0), C(6, 0), C(-3, 0)>>
    /\ kfoo # kpsi

------------------------------------------------------------------------------
(* Properties of the code cells. *)

\* The names a cell reads before any of its own statements has bound them.
FreeNames(c) ==
    LET stmts == CellStmts(c)
    IN  UNION {stmts[k].reads \ UNION {stmts[j].binds : j \in 1..(k - 1)} :
               k \in 1..Len(stmts)}

------------------------------------------------------------------------------
(* Whether fborn1 has state. *)

\* C8 as stated: a second call with the same arguments returns what the first did.
C8_SameArgsSameValue ==
    (bpc = "done" /\ log # <<>> /\ log[1].outcome = "done" /\ log[1].args = args) =>
        ret = log[1].ret

\* C8, amended: fborn1 keeps no state of its own, but its value is decided by its
\* arguments together with the points it draws from the global generator: calls
\* with the same arguments and the same points return the same value, and each
\* call advances the generator by three values per run.
C8_ValueDecidedByArgsAndDraws ==
    /\ (bpc = "done" /\ log # <<>> /\ log[1].outcome = "done"
            /\ log[1].args = args /\ log[1].drawn = drawn) =>
          ret = log[1].ret
    /\ bpc \in {"loop", "done", "ZeroDivisionError"} => rngpos = entrypos + 3 * n
    /\ bpc = "done" => rngpos = entrypos + 3 * args.N

\* A second call drew the point the first drew and returned a non-zero value.
C8_Witness ==
    /\ bpc = "done"
    /\ log # <<>>
    /\ log[1].outcome = "done"
    /\ log[1].drawn = drawn
    /\ ret.num # CZero
    /\ rngpos = 6

------------------------------------------------------------------------------
(* Properties of the tensor product cells. *)

\* The inner product <u|v>: the sum of conj(u[k]) * v[k].
Braket(u, v) == CSum([k \in 1..Len(u) |-> CMul(CConj(u[k]), v[k])])

\* C11: for square arrays OA (dA x dA), OB (dB x dB) and 1D arrays a (length dA),
\* b (length dB), dot(kron(OA, OB), kron(a, b)) equals kron(dot(OA, a), dot(OB, b)),
\* entry (i, j) of it being (OA a)[i] * (OB b)[j], and kron(OA, OB) has shape
\* (dA*dB) x (dA*dB).
C11_MixedProduct ==
    /\ tpc # "start" => Shape(O_total) = <<Len(ta) * Len(tb), Len(ta) * Len(tb)>>
    /\ tpc = "mixed" =>
          /\ tprinted[1] = tprinted[2]
          /\ Len(tprinted[1]) = Len(ta) * Len(tb)
          /\ \A i \in 1..Len(ta), j \in 1..Len(tb) :
                tprinted[1][(i - 1) * Len(tb) + j]
                    = CMul(DotVV(tOA[i], ta), DotVV(tOB[j], tb))

\* The mixed-product cell run on the notebook's arrays prints the recorded output.
C11_Witness ==
    /\ tpc = "mixed"
    /\ ta = NotebookTa /\ tb = NotebookTb /\ tOA = NotebookOA /\ tOB = NotebookOB
    /\ tprinted[1] = <<C(12, 9), C(32, 24), C(4, 3), C(-3, 9), C(-8, 24), C(-1, 3)>>

\* C12: left partial projections: dot(kron(conj(alpha), OB), kron(a, b)) equals
\* <alpha|a> * dot(OB, b) with kron(conj(alpha), OB) of shape (dB, dA*dB), and
\* dot(kron(OA, conj(beta)), kron(a, b)) equals <beta|b> * dot(OA, a) with
\* kron(OA, conj(beta)) of shape (dA, dA*dB).
C12_LeftProjections ==
    tpc = "left" =>
       /\ tprinted[1] = tprinted[2]
       /\ tprinted[1] = ScaleV(Braket(talpha, ta), DotMV(tOB, tb))
       /\ tprinted[3] = <<Len(tb), Len(ta) * Len(tb)>>
       /\ tprinted[4] = tprinted[5]
       /\ tprinted[4] = ScaleV(Braket(tbeta, tb), DotMV(tOA, ta))
       /\ tprinted[6] = <<Len(ta), Len(ta) * Len(tb)>>

\* The left-projection cell run on the notebook's arrays prints the recorded output.
C12_Witness ==
    /\ tpc = "left"
    /\ ta = NotebookTa /\ tb = NotebookTb /\ tOA = NotebookOA /\ tOB = NotebookOB
    /\ talpha = NotebookAlpha /\ tbeta = NotebookBeta
    /\ tprinted[1] = <<C(9, 3), C(24, 8), C(3, 1)>>
    /\ tprinted[3] = <<3, 6>>
    /\ tprinted[4] = <<C(-8, 19), C(-13, -1)>>
    /\ tprinted[6] = <<2, 6>>

\* C13: right partial projections: dot(conj(kron(a, b)), kron(alpha, OB.T).T)
\* equals <a|alpha> * dot(conj(b), OB), and dot(conj(kron(a, b)), kron(OA.T, beta).T)
\* equals <b|beta> * dot(conj(a), OA).
C13_RightProjections ==
    tpc = "right" =>
       /\ tprinted[1] = tprinted[2]
       /\ tprinted[1] = ScaleV(Braket(ta, talpha), DotVM(Conj(tb), tOB))
       /\ tprinted[3] = tprinted[4]
       /\ tprinted[3] = ScaleV(Braket(tb, tbeta), DotVM(Conj(ta), tOA))

\* The right-projection cell run on the notebook's arrays prints the recorded output.
C13_Witness ==
    /\ tpc = "right"
    /\ ta = NotebookTa /\ tb = NotebookTb /\ tOA = NotebookOA /\ tOB = NotebookOB
    /\ talpha = NotebookAlpha /\ tbeta = NotebookBeta
    /\ tprinted[1] = <<C(5, 5), C(18, -6), C(1, 13)>>
    /\ tprinted[3] = <<C(-3, -22), C(-6, -10)>>

------------------------------------------------------------------------------
(* Properties of V1. *)

\* C14: V1 is the step potential: for every 3-vector r it returns 0.1 exactly when
\* r.r < 1 and 0.0 when r.r >= 1, the boundary |r| = 1 being on the zero side.
C14_StepPotential ==
    vpc = "returned" =>
       /\ vout \in {0, 1}
       /\ vout = 1 <=> Dot(vr, vr) < RandDen * RandDen
       /\ Dot(vr, vr) >= RandDen * RandDen => vout = 0

\* V1 called on a point of the unit sphere returned 0.0.
C14_Witness ==
    /\ vpc = "returned"
    /\ vr = <<RandDen, 0, 0>>
    /\ vout = 0

------------------------------------------------------------------------------
(* Properties of plot_sine_series. *)

\* The orders of the terms summed.
OrdersSummed == {term.order : term \in ys}

\* C15 as stated: for every N the slider passes, the orders summed are exactly the
\* odd numbers from 1 up to and including N, and the highest order summed is the N
\* printed in the title.
C15_SumsUpToTitleOrder ==
    spc = "shown" =>
       /\ OrdersSummed = {k \in 1..sN : k % 2 = 1}
       /\ \A term \in ys : term.sign = TermSign(term.order)
       /\ title \in OrdersSummed
       /\ \A k \in OrdersSummed : k <= title

------------------------------------------------------------------------------
(* Properties of fborn2. *)

\* Two quotients are equal.
QEq(x, y) == CScale(y.den, x.num) = CScale(x.den, y.num)

==============================================================================
